---- MODULE Spec2Model ----
(***************************************************************************)
(* Model of ew-wiki-autofill.py: one run of EWEpisode (feed fetch, feed    *)
(* split, missing-episode scan, per-episode generation and output) and of  *)
(* the text helpers _wikify_href and _find_emails.                         *)
(*                                                                         *)
(* A Python str is a sequence of one-character strings.  The text of an    *)
(* XML element is never the empty string (ElementTree gives None for an    *)
(* empty element), so None is written as the empty sequence.  A line of    *)
(* generated wikitext is a sequence whose fixed literal parts are single   *)
(* tokens and whose variable parts are characters.                         *)
(***************************************************************************)
EXTENDS Integers, Sequences, FiniteSets, TLC

\* ---------------------------------------------------------------- bounds
\* Number of distinct episode numbers a feed or spreadsheet may mention.
MaxEpisodes == 3
\* Lowest episode number; the numbers run across a one/two digit boundary.
FirstEpisode == 9
\* Longest feed (items) in the feed-splitting specification.
MaxItems == 3
\* Longest spreadsheet (rows) in the email specification.
MaxRows == 3
\* Longest page name in the link specification.
MaxPageLen == 3

Episodes == FirstEpisode .. (FirstEpisode + MaxEpisodes - 1)

\* ------------------------------------------------------- program constants
EFFECTIVELY_WILD_WIKI ==
  <<"h", "t", "t", "p", "s", ":", "/", "/", "e", "f", "f", "e", "c", "t", "i", "v", "e",
    "l", "y", "w", "i", "l", "d", ".", "f", "a", "n", "d", "o", "m", ".", "c", "o",
    "m", "/", "w", "i", "k", "i", "/">>
FANGRAPHS_PLAYERS ==
  <<"h", "t", "t", "p", "s", ":", "/", "/", "w", "w", "w", ".", "f", "a", "n", "g", "r",
    "a", "p", "h", "s", ".", "c", "o", "m", "/", "p", "l", "a", "y", "e", "r", "s",
    "/">>
FANGRAPHS_STATSS ==
  <<"h", "t", "t", "p", ":", "/", "/", "w", "w", "w", ".", "f", "a", "n", "g", "r", "a",
    "p", "h", "s", ".", "c", "o", "m", "/", "s", "t", "a", "t", "s", "s", ".", "a",
    "s", "p", "x", "?", "p", "l", "a", "y", "e", "r", "i", "d", "=">>
WIKIPEDIA_WIKI ==
  <<"h", "t", "t", "p", "s", ":", "/", "/", "e", "n", ".", "w", "i", "k", "i", "p", "e",
    "d", "i", "a", ".", "o", "r", "g", "/", "w", "i", "k", "i", "/">>
\* target[40:] and target[30:] in _wikify_href, full_title[17:] in _parse_episode.
WikiSliceStart == 40
WikipediaSliceStart == 30
TitleSliceStart == 17
\* words[3] in _split_feed (0-based), email[1] and email[2] in _load_emails.
EpisodeWordIndex == 3
EmailEpisodeColumn == 1
EmailQuestionColumn == 2
\* HTTP statuses compared in check_feed and _load_emails.
HTTP_OK == 200
HTTP_MULTIPLE_CHOICES == 300

\* ------------------------------------------------------------ Python str
None == << >>
Whitespace == {" ", "\t", "\n"}
Digits == <<"0", "1", "2", "3", "4", "5", "6", "7", "8", "9">>
ValueError == -1

\* s[start:] with a 0-based start.
SliceFrom(s, start) == SubSeq(s, start + 1, Len(s))

\* s.startswith(prefix)
StartsWith(s, prefix) ==
  /\ Len(s) >= Len(prefix)
  /\ SubSeq(s, 1, Len(prefix)) = prefix

\* s.replace(old, new) for single characters.
Replace(s, old, new) == [i \in 1..Len(s) |-> IF s[i] = old THEN new ELSE s[i]]

RECURSIVE LStrip(_)
LStrip(s) ==
  IF s # << >> /\ Head(s) \in Whitespace THEN LStrip(Tail(s)) ELSE s

RECURSIVE RStripSet(_, _)
RStripSet(s, chars) ==
  IF s # << >> /\ s[Len(s)] \in chars
  THEN RStripSet(SubSeq(s, 1, Len(s) - 1), chars)
  ELSE s

\* s.rstrip(ch) and s.strip()
RStrip(s, ch) == RStripSet(s, {ch})
Strip(s) == RStripSet(LStrip(s), Whitespace)

\* s.split(): the maximal runs of non-whitespace characters, in order.
RECURSIVE SplitFrom(_, _, _)
SplitFrom(s, word, words) ==
  IF s = << >>
  THEN IF word = << >> THEN words ELSE Append(words, word)
  ELSE IF Head(s) \in Whitespace
       THEN SplitFrom(Tail(s), << >>,
                      IF word = << >> THEN words ELSE Append(words, word))
       ELSE SplitFrom(Tail(s), Append(word, Head(s)), words)
Split(s) == SplitFrom(s, << >>, << >>)

DigitValue(c) == (CHOOSE i \in 1..10 : Digits[i] = c) - 1
IsDigit(c) == \E i \in 1..10 : Digits[i] = c

\* int(s) for a token of decimal digits; ValueError for anything else.
RECURSIVE IntAcc(_, _)
IntAcc(s, acc) ==
  IF s = << >> THEN acc ELSE IntAcc(Tail(s), 10 * acc + DigitValue(Head(s)))
ParseInt(s) ==
  IF s # << >> /\ \A i \in 1..Len(s) : IsDigit(s[i]) THEN IntAcc(s, 0) ELSE ValueError

\* str(n) for n >= 0.
RECURSIVE Str(_)
Str(n) ==
  IF n < 10 THEN <<Digits[n + 1]>> ELSE Append(Str(n \div 10), Digits[(n % 10) + 1])

RECURSIVE Reverse(_)
Reverse(s) == IF s = << >> THEN << >> ELSE Append(Reverse(Tail(s)), Head(s))

\* sorted(S) and sorted(S, reverse=True) of a set of integers.
RECURSIVE SortedAsc(_)
SortedAsc(S) ==
  IF S = {} THEN << >>
  ELSE LET m == CHOOSE x \in S : \A y \in S : x <= y
       IN <<m>> \o SortedAsc(S \ {m})
SortedDesc(S) == Reverse(SortedAsc(S))

\* ---------------------------------------------------------- _wikify_href
\* Variant: the internal-wiki branch keeps the underscores of the URL.
WikifyHref_NoReplace(target, anchor_text) ==
  IF StartsWith(target, FANGRAPHS_PLAYERS) \/ StartsWith(target, FANGRAPHS_STATSS)
  THEN <<"[", "[">> \o anchor_text \o <<"]", "]">>
  ELSE IF StartsWith(target, EFFECTIVELY_WILD_WIKI)
  THEN LET wiki_page == SliceFrom(target, WikiSliceStart)
       IN <<"[">> \o wiki_page \o <<"|">> \o anchor_text \o <<"]">>
  ELSE IF StartsWith(target, WIKIPEDIA_WIKI)
  THEN LET wiki_page == Replace(SliceFrom(target, WikipediaSliceStart), "_", " ")
       IN <<"{", "{", "W", "|">> \o wiki_page \o <<"|">> \o anchor_text \o <<"}", "}">>
  ELSE <<"[">> \o target \o <<" ">> \o anchor_text \o <<"]">>

WikifyHref(target, anchor_text) ==
  IF StartsWith(target, FANGRAPHS_PLAYERS) \/ StartsWith(target, FANGRAPHS_STATSS)
  THEN <<"[", "[">> \o anchor_text \o <<"]", "]">>
  ELSE IF StartsWith(target, EFFECTIVELY_WILD_WIKI)
  THEN LET wiki_page == Replace(SliceFrom(target, WikiSliceStart), "_", " ")
       IN <<"[">> \o wiki_page \o <<"|">> \o anchor_text \o <<"]">>
  ELSE IF StartsWith(target, WIKIPEDIA_WIKI)
  THEN LET wiki_page == Replace(SliceFrom(target, WikipediaSliceStart), "_", " ")
       IN <<"{", "{", "W", "|">> \o wiki_page \o <<"|">> \o anchor_text \o <<"}", "}">>
  ELSE <<"[">> \o target \o <<" ">> \o anchor_text \o <<"]">>

\* ------------------------------------------------------------ feed items
\* A feed item: the text of <title> and of <content:encoded> (None when the
\* element is absent or empty; a description is the sequence of the element
\* names at the top of its HTML), and whether <enclosure> is present.
TitlePrefix ==
  <<"E", "f", "f", "e", "c", "t", "i", "v", "e", "l", "y", " ", "W", "i", "l", "d", " ",
    "E", "p", "i", "s", "o", "d", "e", " ">>
NonNumericTitle == TitlePrefix \o <<"P", "r", "e", "v", "i", "e", "w", ":", " ", "X">>
ShortTitle == SubSeq(TitlePrefix, 1, 17) \o <<"B", "o", "n", "u", "s">>
Title(n) == TitlePrefix \o Str(n) \o <<":", " ", "X">>

WithParagraph == <<"p">>
WithoutParagraph == <<"div">>

Item(title, description, enclosure) ==
  [title |-> title, description |-> description, enclosure |-> enclosure]

\* Items of any shape the splitter distinguishes.
SplitItems ==
  { Item(t, d, TRUE) :
      t \in {None, NonNumericTitle, ShortTitle} \cup { Title(n) : n \in Episodes },
      d \in {None, WithParagraph} }
    \cup { Item(Title(n), WithParagraph, FALSE) : n \in Episodes }

\* Well-formed recent items: numbered, with a description; generation fails
\* on a missing enclosure or on a description without a paragraph.
RecentItems(n) ==
  { Item(Title(n), WithParagraph, TRUE),
    Item(Title(n), WithParagraph, FALSE),
    Item(Title(n), WithoutParagraph, TRUE) }

SeqsUpTo(S, n) == UNION { [1..k -> S] : k \in 0..n }

\* Feeds as the site serves them: distinct numbers, newest first.
RECURSIVE RecentFeedsOver(_)
RecentFeedsOver(numbers) ==
  IF numbers = << >> THEN { << >> }
  ELSE { <<item>> \o rest :
           item \in RecentItems(Head(numbers)), rest \in RecentFeedsOver(Tail(numbers)) }
RecentFeeds == UNION { RecentFeedsOver(SortedDesc(S)) : S \in SUBSET Episodes }

\* _element_text
ElementText(text) == text

\* ---------------------------------------------------------- spreadsheet
EpisodeHeading == <<"E", "p", "i", "s", "o", "d", "e">>
Questions == { <<"a">>, <<" ", "b", " ">> }
Row(episode, question) == << <<"t">>, episode, question >>
SheetRows ==
  { Row(e, q) : e \in { Str(n) : n \in Episodes }, q \in Questions }
    \cup { Row(EpisodeHeading, <<"Q">>), Row(<< >>, <<"a">>), Row(<<"n", "/", "a">>, <<"a">>) }
Response(status_code, rows) == [status_code |-> status_code, rows |-> rows]

\* _load_emails: the rows of a 2xx response appended to self.emails, a row
\* skipped when its episode column is the heading, empty or not a number.
RECURSIVE ReadRows(_, _)
ReadRows(rows, acc) ==
  IF rows = << >> THEN acc
  ELSE LET email == Head(rows)
           column == email[EmailEpisodeColumn + 1]
       IN IF column = EpisodeHeading \/ column = << >>
          THEN ReadRows(Tail(rows), acc)
          ELSE IF ParseInt(column) = ValueError
          THEN ReadRows(Tail(rows), acc)
          ELSE ReadRows(Tail(rows),
                        Append(acc, <<ParseInt(column), email[EmailQuestionColumn + 1]>>))
LoadEmails(response, self_emails) ==
  IF HTTP_OK <= response.status_code /\ response.status_code < HTTP_MULTIPLE_CHOICES
  THEN ReadRows(response.rows, self_emails)
  ELSE self_emails

\* _find_emails, after the lazy load: the scan of self.emails, then the
\* header appended and the list reversed, or the placeholder block.
EmailHeader == <<"==Email Questions==">>
no_emails_found ==
  << EmailHeader,
     <<"* {For EMAIL episodes: copy the question and who asked it from the [https://docs.google.com/spreadsheets/d/1-8lpspHQuR5GK7S_nNtGunLGrx60QnSa8XLG_wvRb4Q/edit#gid=0 question database], and link prominent teams and players.}">>,
     << >> >>
Bullet(question) == <<"*", " ">> \o Strip(question)

RECURSIVE ScanEmails(_, _, _)
ScanEmails(self_emails, number, found) ==
  IF self_emails = << >> THEN found
  ELSE LET email == Head(self_emails)
       IN IF email[1] = number
          THEN ScanEmails(Tail(self_emails), number,
                          found \o << << >>, Bullet(email[2]) >>)
          ELSE IF email[1] < number
          THEN found
          ELSE ScanEmails(Tail(self_emails), number, found)
\* Variant: the collected lines are not reversed.
FindEmails_NoReverse(self_emails, number) ==
  LET found == ScanEmails(self_emails, number, << >>)
  IN IF found # << >> THEN <<no_emails_found[1]>> \o found
     ELSE no_emails_found

FindEmails(self_emails, number) ==
  LET found == ScanEmails(self_emails, number, << >>)
  IN IF found # << >> THEN Reverse(Append(found, no_emails_found[1]))
     ELSE no_emails_found

\* ------------------------------------------------------------------ state
VARIABLES
  check_all,         \* EWEpisode.check_all (--all)
  test_mode,         \* EWEpisode.test_mode (--test)
  feedDoc,           \* the items of the RSS document at the feed URL / in the file
  wiki,              \* titles of the pages that exist on the wiki site
  sheet,             \* the response of the spreadsheet export URL
  feed,              \* EWEpisode.feed: << >> for None, <<items>> once parsed
  episodes,          \* EWEpisode.episodes: episode number -> item
  emails,            \* EWEpisode.emails: sequence of <<episode, question>>
  pc,                \* position of the run
  error,             \* the exception that ended the run, "" if none
  pos,               \* _split_feed: index of the next item of the feed
  numbers,           \* _parse_feed: local `episodes`, the sorted numbers
  latest_episode,    \* _parse_feed: local latest_episode
  missing_episodes,  \* _parse_feed: local missing_episodes
  next_check,        \* _parse_feed: index into numbers of the first loop
  todo,              \* _parse_feed: what is left of sorted(missing_episodes)
  status_code,       \* status of the feed request, 0 when none was made
  checked,           \* numbers passed to _wiki_page_exists, in call order
  found,             \* _find_emails calls: number, cache used, section returned
  printed,           \* test mode: the (title, wikitext) pairs printed
  pages,             \* normal mode: the pywikibot.Page objects built
  loads,             \* number of _load_emails calls (spreadsheet fetches)
  link               \* _wikify_href round trip: page, anchor, target, result

vars ==
  << check_all, test_mode, feedDoc, wiki, sheet, feed, episodes, emails, pc, error,
     pos, numbers, latest_episode, missing_episodes, next_check, todo, status_code,
     checked, found, printed, pages, loads, link >>

Statuses == {200, 304, 404}

NoLink == [page |-> << >>, anchor |-> << >>, target |-> << >>, result |-> << >>]

\* EWEpisode.__init__ and the untouched locals.
Constructed ==
  /\ feed = None
  /\ episodes = << >>
  /\ emails = << >>
  /\ pc = "start"
  /\ error = ""
  /\ pos = 0
  /\ numbers = << >>
  /\ latest_episode = 0
  /\ missing_episodes = {}
  /\ next_check = 0
  /\ todo = << >>
  /\ status_code = 0
  /\ checked = << >>
  /\ found = << >>
  /\ printed = << >>
  /\ pages = << >>
  /\ loads = 0
  /\ link = NoLink

WikiStates == SUBSET { Str(n) : n \in Episodes }

\* Spreadsheets of the run specification: unavailable, without a usable
\* row, and with questions for the two lowest episodes (newest first).
RunSheets ==
  { Response(500, << >>),
    Response(200, << Row(EpisodeHeading, <<"Q">>) >>),
    Response(200, << Row(EpisodeHeading, <<"Q">>),
                     Row(Str(FirstEpisode + 1), <<"a">>),
                     Row(Str(FirstEpisode), <<" ", "b", " ">>),
                     Row(Str(FirstEpisode), <<"a">>) >>) }

Init ==
  /\ check_all \in BOOLEAN
  /\ test_mode \in BOOLEAN
  /\ feedDoc \in RecentFeeds
  /\ wiki \in WikiStates
  /\ sheet \in RunSheets
  /\ Constructed

\* ------------------------------------------------------------- operations
\* The uncaught exceptions, named with the line that raises them.
EmptyIndexError == "line 70: ValueError, max() of an empty sequence"
ShortTitleError == "line 145: IndexError, words[3]"
NumberError == "line 146: ValueError, int()"
EnclosureError == "line 165: AttributeError, enclosure is None"
ParagraphError == "line 329: IndexError, paragraphs[0]"
SplitErrors == {ShortTitleError, NumberError}
GenerationErrors == {EnclosureError, ParagraphError}

Raise(exception) ==
  /\ pc' = "raised"
  /\ error' = exception

\* Variant: every status but 304 counts as a changed feed.
FeedChanged_Not304(status) == status # 304

\* check_feed line 58
FeedChanged(status) == status = HTTP_OK

\* check_feed: the conditional GET; the feed is parsed on a 200 only.
check_feed ==
  /\ pc = "start"
  /\ \E status \in Statuses :
       /\ status_code' = status
       /\ IF FeedChanged(status)
          THEN /\ feed' = <<feedDoc>>
               /\ pc' = "split"
               /\ pos' = 1
          ELSE /\ pc' = "done"
               /\ UNCHANGED <<feed, pos>>
  /\ UNCHANGED << check_all, test_mode, feedDoc, wiki, sheet, episodes, emails, error,
                  numbers, latest_episode, missing_episodes, next_check, todo,
                  checked, found, printed, pages, loads, link >>

\* use_local_feed
use_local_feed ==
  /\ pc = "start"
  /\ feed' = <<feedDoc>>
  /\ pc' = "split"
  /\ pos' = 1
  /\ UNCHANGED << check_all, test_mode, feedDoc, wiki, sheet, episodes, emails, error,
                  numbers, latest_episode, missing_episodes, next_check, todo,
                  status_code, checked, found, printed, pages, loads, link >>

\* Variant: an item without a title is not skipped.
SplitSkips_Never(item) == FALSE

\* _split_feed lines 136-138 and 139-143: the skip and the stop.
SplitSkips(item) == ElementText(item.title) = None
SplitStops(item) == ElementText(item.description) = None

\* _parse_feed lines 69-72, reached when _split_feed returns.
AfterSplit ==
  /\ numbers' = SortedDesc(DOMAIN episodes)
  /\ IF DOMAIN episodes = {}
     THEN /\ Raise(EmptyIndexError)
          /\ UNCHANGED <<latest_episode, next_check>>
     ELSE /\ latest_episode' = CHOOSE m \in DOMAIN episodes :
                                 \A n \in DOMAIN episodes : n <= m
          /\ next_check' = 1
          /\ pc' = "scan"
          /\ error' = error
  /\ missing_episodes' = {}
  /\ UNCHANGED <<episodes, pos>>

\* _split_feed: one iteration of the loop over channel/item.
SplitItem ==
  /\ pc = "split"
  /\ IF pos > Len(feed[1])
     THEN AfterSplit
     ELSE LET item == feed[1][pos]
              words == Split(ElementText(item.title))
              episode_number ==
                IF Len(words) <= EpisodeWordIndex THEN ValueError
                ELSE ParseInt(RStrip(words[EpisodeWordIndex + 1], ":"))
          IN IF SplitSkips(item)
             THEN /\ pos' = pos + 1
                  /\ UNCHANGED << episodes, pc, error, numbers, latest_episode,
                                  missing_episodes, next_check >>
             ELSE IF SplitStops(item)
             THEN AfterSplit
             ELSE IF Len(words) <= EpisodeWordIndex
             THEN /\ Raise(ShortTitleError)
                  /\ UNCHANGED << episodes, pos, numbers, latest_episode,
                                  missing_episodes, next_check >>
             ELSE IF episode_number = ValueError
             THEN /\ Raise(NumberError)
                  /\ UNCHANGED << episodes, pos, numbers, latest_episode,
                                  missing_episodes, next_check >>
             ELSE /\ episodes' = [n \in DOMAIN episodes \cup {episode_number} |->
                                    IF n = episode_number THEN item ELSE episodes[n]]
                  /\ pos' = pos + 1
                  /\ UNCHANGED << pc, error, numbers, latest_episode,
                                  missing_episodes, next_check >>
  /\ UNCHANGED << check_all, test_mode, feedDoc, wiki, sheet, feed, emails, todo,
                  status_code, checked, found, printed, pages, loads, link >>

\* _wiki_page_exists
WikiPageExists(page_title) == page_title \in wiki

\* Variants: the scan never stops early; the scan ignores check_all.
ScanBreaks_Never(exists) == FALSE
ScanBreaks_Always(exists) == exists

\* _parse_feed lines 76-81: the scan stops at an existing page unless check_all.
ScanBreaks(exists) == exists /\ ~check_all

\* _parse_feed line 82, reached when the first loop ends.
AfterScan(missing) ==
  /\ todo' = SortedAsc(missing)
  /\ pc' = "generate"

\* _parse_feed lines 73-81: one iteration of the existence scan.
WikiPageExistsStep ==
  /\ pc = "scan"
  /\ IF next_check > Len(numbers)
     THEN /\ AfterScan(missing_episodes)
          /\ UNCHANGED <<missing_episodes, next_check, checked>>
     ELSE LET number == numbers[next_check]
              exists == WikiPageExists(Str(number))
          IN /\ checked' = Append(checked, number)
             /\ IF ~exists
                THEN /\ missing_episodes' = missing_episodes \cup {number}
                     /\ next_check' = next_check + 1
                     /\ UNCHANGED <<todo, pc>>
                ELSE IF ScanBreaks(exists)
                THEN /\ AfterScan(missing_episodes)
                     /\ UNCHANGED <<missing_episodes, next_check>>
                ELSE /\ next_check' = next_check + 1
                     /\ UNCHANGED <<missing_episodes, todo, pc>>
  /\ UNCHANGED << check_all, test_mode, feedDoc, wiki, sheet, feed, episodes, emails,
                  error, pos, numbers, latest_episode, status_code, found, printed,
                  pages, loads, link >>

\* _parse_episode: the exception it raises for an item, "" if none.  The
\* enclosure is dereferenced (line 165) before the first paragraph (line 329).
ParseEpisodeError(episode) ==
  IF ~episode.enclosure
  THEN EnclosureError
  ELSE IF SelectSeq(episode.description, LAMBDA tag : tag = "p") = << >>
  THEN ParagraphError
  ELSE ""

\* _parse_episode lines 194-259: the lines of the page that depend on the
\* number, the title and the email section (the other lines are omitted).
WikiText(number, title, email_section) ==
  << <<"| epnumber=">> \o Str(number), <<"| title1=">> \o title >>
    \o email_section
    \o << <<"{{DEFAULTSORT: Episode 0">> \o Str(number) \o <<"}}">> >>

Page(title, text) == [title |-> title, text |-> text]

\* _create_episode_pages: the two Page objects it builds.
BuiltPages(number, title, page_text) ==
  << Page(title, page_text),
     Page(Str(number), << <<"#REDIRECT [[">> \o title \o <<"]]">> >>) >>

\* _create_episode_pages: the titles it saves to the site.  Both save()
\* calls (lines 96 and 100) are commented out, so it saves none.
SavedTitles(number, title) == {}

\* _find_emails lines 355-356: the spreadsheet is fetched when the cache is empty.
NeedsLoad(self_emails) == self_emails = << >>

\* _parse_feed lines 82-90: one iteration of the generation loop, with the
\* _parse_episode, _find_emails, _load_emails and _create_episode_pages calls.
GenerateStep ==
  /\ pc = "generate"
  /\ IF todo = << >>
     THEN /\ pc' = "done"
          /\ UNCHANGED <<todo, error, emails, loads, found, printed, pages, wiki>>
     ELSE LET number == Head(todo)
              episode == episodes[number]
              full_title == ElementText(episode.title)
              title == SliceFrom(full_title, TitleSliceStart)
              cache == IF NeedsLoad(emails) THEN LoadEmails(sheet, emails) ELSE emails
              section == FindEmails(cache, number)
              episode_wikitext == WikiText(number, title, section)
          IN IF ParseEpisodeError(episode) # ""
             THEN /\ Raise(ParseEpisodeError(episode))
                  /\ UNCHANGED <<todo, emails, loads, found, printed, pages, wiki>>
             ELSE /\ emails' = cache
                  /\ loads' = IF NeedsLoad(emails) THEN loads + 1 ELSE loads
                  /\ found' = Append(found, [number |-> number, emails |-> cache,
                                             section |-> section])
                  /\ IF test_mode
                     THEN /\ printed' = Append(printed, Page(full_title, episode_wikitext))
                          /\ UNCHANGED <<pages, wiki>>
                     ELSE /\ pages' = pages \o BuiltPages(number, full_title,
                                                          episode_wikitext)
                          /\ wiki' = wiki \cup SavedTitles(number, full_title)
                          /\ UNCHANGED printed
                  /\ todo' = Tail(todo)
                  /\ UNCHANGED <<pc, error>>
  /\ UNCHANGED << check_all, test_mode, feedDoc, sheet, feed, episodes, pos, numbers,
                  latest_episode, missing_episodes, next_check, status_code, checked,
                  link >>

Next ==
  \/ check_feed
  \/ use_local_feed
  \/ SplitItem
  \/ WikiPageExistsStep
  \/ GenerateStep

\* One run of main(): any recent feed, wiki state, flags and spreadsheet.
Spec == Init /\ [][Next]_vars

\* The same run over feeds of arbitrary items (untitled, undescribed,
\* duplicated, malformed), to exercise _split_feed.
InitSplit ==
  /\ check_all = FALSE
  /\ test_mode = TRUE
  /\ feedDoc \in SeqsUpTo(SplitItems, MaxItems)
  /\ wiki = { Str(FirstEpisode) }
  /\ sheet = Response(500, << >>)
  /\ Constructed
SpecSplit == InitSplit /\ [][Next]_vars

\* The same run over arbitrary spreadsheets, every episode of the feed
\* missing on the wiki, to exercise _load_emails and _find_emails.
FullFeed == [i \in 1..MaxEpisodes |->
               Item(Title(FirstEpisode + MaxEpisodes - i), WithParagraph, TRUE)]
InitEmails ==
  /\ check_all = FALSE
  /\ test_mode = TRUE
  /\ feedDoc = FullFeed
  /\ wiki = {}
  /\ sheet \in { Response(200, rows) : rows \in SeqsUpTo(SheetRows, MaxRows) }
  /\ Constructed
SpecEmails == InitEmails /\ [][Next]_vars

\* ------------------------------------------------- _wikify_href round trip
PageChars == {"a", " ", "_"}
Anchors == { <<"x">>, <<"L", "i", "n", "k">> }

InitHref ==
  /\ check_all = FALSE
  /\ test_mode = TRUE
  /\ feedDoc = << >>
  /\ wiki = {}
  /\ sheet = Response(500, << >>)
  /\ feed = None
  /\ episodes = << >>
  /\ emails = << >>
  /\ pc = "href"
  /\ error = ""
  /\ pos = 0
  /\ numbers = << >>
  /\ latest_episode = 0
  /\ missing_episodes = {}
  /\ next_check = 0
  /\ todo = << >>
  /\ status_code = 0
  /\ checked = << >>
  /\ found = << >>
  /\ printed = << >>
  /\ pages = << >>
  /\ loads = 0
  /\ \E page \in SeqsUpTo(PageChars, MaxPageLen), anchor \in Anchors :
       link = [page |-> page, anchor |-> anchor, target |-> << >>, result |-> << >>]

\* The internal-wiki URL of a page: the base URL joined with page.replace(' ', '_').
WikiUrl(page) == EFFECTIVELY_WILD_WIKI \o Replace(page, " ", "_")

WikifyHrefStep ==
  /\ pc = "href"
  /\ link' = [link EXCEPT !.target = WikiUrl(link.page),
                          !.result = WikifyHref(WikiUrl(link.page), link.anchor)]
  /\ pc' = "done"
  /\ UNCHANGED << check_all, test_mode, feedDoc, wiki, sheet, feed, episodes, emails,
                  error, pos, numbers, latest_episode, missing_episodes, next_check,
                  todo, status_code, checked, found, printed, pages, loads >>

NextHref == WikifyHrefStep
SpecHref == InitHref /\ [][NextHref]_vars

\* ----------------------------------------------------------------- claims
Range(seq) == { seq[i] : i \in 1..Len(seq) }
StrictlyDescending(seq) == \A i, j \in 1..Len(seq) : i < j => seq[i] > seq[j]
StrictlyAscending(seq) == \A i, j \in 1..Len(seq) : i < j => seq[i] < seq[j]
Indexed == DOMAIN episodes
HasPage(n) == Str(n) \in wiki
IndexedWithPage == { n \in Indexed : HasPage(n) }
HighestWithPage == CHOOSE m \in IndexedWithPage : \A n \in IndexedWithPage : n <= m
SplitReturned == feed # None /\ pc \notin {"start", "split"} /\ error \notin SplitErrors
ScanFinished ==
  \/ pc = "generate"
  \/ pc = "done" /\ feed # None
  \/ pc = "raised" /\ error \in GenerationErrors
GeneratedNumbers == { found[i].number : i \in 1..Len(found) }

\* C1: with check_all false the indexed numbers are checked in strictly
\* descending order without a gap, no number below the highest indexed number
\* that has a page is ever checked or generated, and once the scan is over the
\* missing set is exactly the indexed numbers above that number (all of them
\* when no indexed number has a page).
C1_ExpectedChecks ==
  IF IndexedWithPage = {} THEN Indexed ELSE { n \in Indexed : n >= HighestWithPage }
C1_ExpectedMissing ==
  IF IndexedWithPage = {} THEN Indexed ELSE { n \in Indexed : n > HighestWithPage }
C1_ScanStopsAtFirstExisting ==
  (~check_all /\ SplitReturned) =>
    /\ StrictlyDescending(checked)
    /\ \A c \in Range(checked) :
         /\ c \in C1_ExpectedChecks
         /\ \A n \in Indexed : n > c => n \in Range(checked)
    /\ GeneratedNumbers \subseteq C1_ExpectedMissing
    /\ ScanFinished =>
         /\ Range(checked) = C1_ExpectedChecks
         /\ missing_episodes = C1_ExpectedMissing
C1_Witness ==
  /\ ~check_all
  /\ pc = "done"
  /\ error = ""
  /\ IndexedWithPage # {}
  /\ \E n \in Indexed : n < HighestWithPage /\ ~HasPage(n)
  /\ GeneratedNumbers # {}
  /\ GeneratedNumbers = missing_episodes

\* C2: with check_all true every indexed number is passed to the existence
\* check exactly once whatever the earlier answers, and once the scan is over
\* the missing set is exactly the indexed numbers without a page.
C2_CheckAllChecksEverything ==
  (check_all /\ SplitReturned) =>
    /\ \A i, j \in 1..Len(checked) : i # j => checked[i] # checked[j]
    /\ Range(checked) \subseteq Indexed
    /\ ScanFinished =>
         /\ Range(checked) = Indexed
         /\ Len(checked) = Cardinality(Indexed)
         /\ missing_episodes = { n \in Indexed : ~HasPage(n) }
C2_Witness ==
  /\ check_all
  /\ pc = "done"
  /\ IndexedWithPage # {}
  /\ \E n \in missing_episodes : n < HighestWithPage
  /\ Len(checked) = Cardinality(Indexed)

\* C3: the split skips an item without a title and stops at the first titled
\* item without a description: every index entry is a titled item before that
\* stop point, and when the split returns the keys are exactly the numbers of
\* the titled items before the stop point, each key holding the last such item.
C3_Titled(i) == feedDoc[i].title # None
C3_StopPoints ==
  { i \in 1..Len(feedDoc) : C3_Titled(i) /\ feedDoc[i].description = None }
C3_StopPoint ==
  IF C3_StopPoints = {} THEN Len(feedDoc) + 1
  ELSE CHOOSE i \in C3_StopPoints : \A j \in C3_StopPoints : i <= j
C3_Usable == { i \in 1..(C3_StopPoint - 1) : C3_Titled(i) }
C3_NumberOf(i) ==
  IF \E n \in Episodes : feedDoc[i].title = Title(n)
  THEN CHOOSE n \in Episodes : feedDoc[i].title = Title(n)
  ELSE ValueError
C3_LastWithNumber(n) ==
  CHOOSE i \in C3_Usable :
    /\ C3_NumberOf(i) = n
    /\ \A j \in C3_Usable : C3_NumberOf(j) = n => j <= i
C3_SplitIsTwoTier ==
  /\ \A n \in Indexed :
       \E i \in C3_Usable : C3_NumberOf(i) = n /\ episodes[n] = feedDoc[i]
  /\ SplitReturned =>
       /\ Indexed = { C3_NumberOf(i) : i \in C3_Usable }
       /\ \A n \in Indexed : episodes[n] = feedDoc[C3_LastWithNumber(n)]
C3_Witness ==
  /\ SplitReturned
  /\ C3_StopPoint <= Len(feedDoc)
  /\ \E i, j \in 1..(C3_StopPoint - 1) :
       /\ i < j
       /\ ~C3_Titled(i)
       /\ feedDoc[i].description = None
       /\ C3_NumberOf(j) \in Indexed

\* C4: in normal mode, when the run completes, every missing number has its
\* episode page (titled with the feed title) and its numeric redirect on the wiki.
C4_MissingPagesCreated ==
  (pc = "done" /\ feed # None /\ ~test_mode) =>
    \A n \in missing_episodes :
      /\ ElementText(episodes[n].title) \in wiki
      /\ Str(n) \in wiki

\* C5: the feed request of check_feed leads to parsing on a 200 only; after any
\* other status the run is over without error, the feed is unset, the index
\* is empty, and nothing was checked, fetched, generated, printed or built.
C5_OnlyStatus200Parses ==
  (status_code # 0 /\ status_code # HTTP_OK) =>
    /\ pc = "done"
    /\ error = ""
    /\ feed = None
    /\ Indexed = {}
    /\ checked = << >>
    /\ loads = 0
    /\ emails = << >>
    /\ found = << >>
    /\ printed = << >>
    /\ pages = << >>
C5_Witness ==
  /\ status_code = 304
  /\ pc = "done"
  /\ feedDoc # << >>

\* C6: for a cache sorted by descending episode number, the email section of
\* episode N is the placeholder block when no record has number N; otherwise
\* it is the header followed, for the records of number N taken in reverse
\* source order, by one bullet line and one blank line each.
C6_SortedDescending(cache) ==
  \A i, j \in 1..Len(cache) : i < j => cache[i][1] >= cache[j][1]
C6_Matching(cache, n) == SelectSeq(cache, LAMBDA email : email[1] = n)
C6_SectionIsAsClaimed(call) ==
  LET matching == C6_Matching(call.emails, call.number)
      m == Len(matching)
  IN IF m = 0 THEN call.section = no_emails_found
     ELSE /\ Len(call.section) = 1 + 2 * m
          /\ call.section[1] = EmailHeader
          /\ \A k \in 1..m :
               /\ call.section[2 * k] = <<"*", " ">> \o Strip(matching[m + 1 - k][2])
               /\ call.section[2 * k + 1] = << >>
C6_EmailSection ==
  \A i \in 1..Len(found) :
    C6_SortedDescending(found[i].emails) => C6_SectionIsAsClaimed(found[i])
C6_Witness ==
  \E i \in 1..Len(found) :
    LET matching == C6_Matching(found[i].emails, found[i].number)
    IN /\ C6_SortedDescending(found[i].emails)
       /\ Len(matching) >= 2
       /\ matching[1][2] # matching[2][2]
       /\ Len(found[i].emails) > Len(matching)
       /\ C6_SectionIsAsClaimed(found[i])

\* C7: the spreadsheet is fetched on the first _find_emails call only, whatever
\* the fetch returned, and later calls see the cache of the first call.
C7_LoadedAtMostOnce ==
  found # << >> =>
    /\ loads = 1
    /\ \A i \in 1..Len(found) : found[i].emails = found[1].emails

\* C8: the internal-wiki URL built from any page name wikifies back to
\* '[page|anchor]'.
C8_Expected == <<"[">> \o link.page \o <<"|">> \o link.anchor \o <<"]">>
C8_RoundTrip == pc = "done" => link.result = C8_Expected
\* C8 as amended: the round trip holds for the page names without an underscore.
C8_RoundTripWithoutUnderscore ==
  (pc = "done" /\ "_" \notin Range(link.page)) => link.result = C8_Expected
C8_Witness ==
  /\ pc = "done"
  /\ " " \in Range(link.page)
  /\ "a" \in Range(link.page)
  /\ "_" \notin Range(link.page)
  /\ link.result = C8_Expected

\* C9: episodes are generated in ascending order after the scan is over, and
\* when generating episode k raises, every missing episode below k has been
\* printed (test mode) or published (normal mode) and neither k nor a missing
\* episode above k has been generated, printed or published.
C9_Printed(n) == \E i \in 1..Len(printed) : printed[i].title = episodes[n].title
C9_Published(n) == episodes[n].title \in wiki /\ Str(n) \in wiki
C9_Output(n) == IF test_mode THEN C9_Printed(n) ELSE C9_Published(n)
C9_Built(n) == \E i \in 1..Len(pages) : pages[i].title = episodes[n].title
C9_SequentialAndAbortsOnFailure ==
  /\ StrictlyAscending([i \in 1..Len(found) |-> found[i].number])
  /\ found # << >> => ScanFinished
  /\ (pc = "raised" /\ error \in GenerationErrors) =>
       \A m \in missing_episodes :
         /\ m < Head(todo) => C9_Output(m)
         /\ m >= Head(todo) =>
              ~(m \in GeneratedNumbers \/ C9_Printed(m) \/ C9_Built(m) \/ C9_Published(m))
\* C9 without the publication: the same statement with "published" read as
\* "its Page objects were built by _create_episode_pages".
C9_HoldsUpToSaving ==
  /\ StrictlyAscending([i \in 1..Len(found) |-> found[i].number])
  /\ found # << >> => ScanFinished
  /\ (pc = "raised" /\ error \in GenerationErrors) =>
       \A m \in missing_episodes :
         /\ m < Head(todo) => (IF test_mode THEN C9_Printed(m) ELSE C9_Built(m))
         /\ m >= Head(todo) =>
              ~(m \in GeneratedNumbers \/ C9_Printed(m) \/ C9_Built(m) \/ C9_Published(m))

\* C10: when the split of a parsed feed returns an empty index, the run ends
\* normally, having checked, generated and published nothing.
C10_EmptyIndexEndsQuietly ==
  (SplitReturned /\ Indexed = {}) =>
    /\ pc = "done"
    /\ error = ""
    /\ checked = << >>
    /\ found = << >>
    /\ printed = << >>
    /\ pages = << >>

====
